---- MODULE Spec2Model ----
(***************************************************************************)
(* brutifus: the step sequencer run() of brutifus.py, the dictionary of    *)
(* filenames it threads between the processing steps, and the pickle file  *)
(* that persists that dictionary between steps.                            *)
(*                                                                         *)
(* Python values are tagged records, a dict is its insertion-ordered list  *)
(* of <<key, value>> items, and the dictionary file is the sequence of     *)
(* pickle opcodes it holds.                                                *)
(***************************************************************************)
EXTENDS Naturals, Integers, Sequences, FiniteSets, TLC

VARIABLES
    params_ok,      \* os.path.isfile(params_fn)
    procsteps_ok,   \* os.path.isfile(procsteps_fn)
    procsteps,      \* the recipe loaded from procsteps_fn
    disk,           \* the data and product files that exist
    regFile,        \* the dictionary-of-filenames file of the target
    fn_list,        \* run()'s local fn_list (the step's own while it runs)
    pc,             \* position of run()
    idx,            \* position of the for loop in procsteps
    ip,             \* position inside the running step implementation
    err,            \* what ended the run, "" while none
    calls,          \* history: recipe positions whose implementation was invoked
    handed,         \* history: the fn_list handed to the last invoked step
    lastRet,        \* history: the fn_list returned by the last completed step
    persisted,      \* history: the value most recently pickled into regFile
    regFile0,       \* history: regFile when run() was entered
    fileAtCall,     \* history: regFile when the last step was invoked
    loads,          \* history: number of reads of regFile
    writes,         \* history: number of writes of regFile
    everPut,        \* history: keys assigned by the steps of this run
    content,        \* what each file of disk holds, as the way it was derived
    inputs,         \* what the running step has read so far
    runs,           \* number of times run() was started
    end1,           \* history: regFile and content when the first run ended
    mp,             \* params['multiprocessing']
    plan,           \* the fitting and assembling steps still to be run
    args,           \* start_row, end_row and method of the running step
    fpc,            \* position of the fitter or of the assembler
    rows,           \* the rows the fitter's loop goes through
    fpos,           \* position of the loop in rows
    jobs,           \* pool.map: the state of the job of each column
    results,        \* pool.map: the result slot of each job
    order,          \* history: the columns in the order their jobs ended
    conts,          \* the fitter's conts
    pool,           \* the worker pool of the row
    sig,            \* what the process does on SIGINT
    tmp,            \* the files of bifus_m.tmp_loc
    cont_cube,      \* the assembler's cont_cube, row by row
    written,        \* history: the rows the running fitter has saved
    sigRow,         \* history: the row in dispatch when SIGINT came
    fits,           \* history: the row spans of the fitter runs that returned
    tmp0,           \* history: tmp when the steps of plan were started
    regAtCall,      \* history: regFile when the running step was called
    fitEnd,         \* history: how the last run of the fitter ended
    names,          \* the file names made for a pair of rows
    pools           \* the worker pools the process has made, oldest first

vars == <<params_ok, procsteps_ok, procsteps, disk, regFile, fn_list, pc, idx,
          ip, err, calls, handed, lastRet, persisted, regFile0, fileAtCall,
          loads, writes, everPut, content, inputs, runs, end1,
          mp, plan, args, fpc, rows, fpos, jobs, results, order, conts, pool,
          sig, tmp, cont_cube, written, sigRow, fits, tmp0, regAtCall,
          fitEnd, names, pools>>

\* the variables of the continuum fitter and of the reassembler
fitvars == <<mp, plan, args, fpc, rows, fpos, jobs, results, order, conts,
             pool, sig, tmp, cont_cube, written, sigRow, fits, tmp0, regAtCall,
             fitEnd, names, pools>>

\* the variables of run() that the fitter and the assembler leave alone
seqvars == <<params_ok, procsteps_ok, procsteps, disk, pc, idx, ip, calls,
             handed, lastRet, regFile0, fileAtCall, loads, writes, everPut,
             content, inputs, runs, end1>>

-----------------------------------------------------------------------------
(* Bounds *)

MaxSteps == 2

\* how many times in a row run() is started on the same recipe
MaxRuns == 2

\* the cube of the fitter: header_data['NAXIS1'] rows of header_data['NAXIS2']
\* columns
MaxRows == 3
MaxCols == 2

-----------------------------------------------------------------------------
(* Python values *)

PyNone == [t |-> "None", s |-> "", items |-> <<>>]
PyStr(s) == [t |-> "str", s |-> s, items |-> <<>>]
PyDict(items) == [t |-> "dict", s |-> "", items |-> items]
PyMark == [t |-> "mark", s |-> "", items |-> <<>>]
PyEOFError == [t |-> "EOFError", s |-> "", items |-> <<>>]
\* a list of fitted spectra, each spectrum named by what it was fitted to
PyList(items) == [t |-> "list", s |-> "", items |-> items]
\* the iterator that map(f, xs) returns: f is applied to none of xs yet
PyMapObject(xs) == [t |-> "map", s |-> "", items |-> xs]

DictKeys(d) == {d.items[i][1] : i \in 1..Len(d.items)}

DictHas(d, k) == d.t = "dict" /\ k \in DictKeys(d)

DictGet(d, k) ==
    LET i == CHOOSE j \in 1..Len(d.items) : d.items[j][1] = k
    IN  d.items[i][2]

\* d[k] = v : a key that is present keeps its position, a new one goes last
DictSet(d, k, v) ==
    IF k \in DictKeys(d)
    THEN PyDict([i \in 1..Len(d.items) |->
                    IF d.items[i][1] = k THEN <<k, v>> ELSE d.items[i]])
    ELSE PyDict(Append(d.items, <<k, v>>))

\* the mapping a dict stands for (dict equality ignores insertion order)
AsMap(d) == [k \in DictKeys(d) |-> DictGet(d, k)]

-----------------------------------------------------------------------------
(* pickle *)

Tok(op, arg) == [op |-> op, arg |-> arg]

RECURSIVE PickleItems(_)
PickleItems(items) ==
    IF items = <<>> THEN <<>>
    ELSE <<Tok("BINUNICODE", Head(items)[1]), Tok("BINUNICODE", Head(items)[2])>>
         \o PickleItems(Tail(items))

RECURSIVE PickleArrays(_)
PickleArrays(items) ==
    IF items = <<>> THEN <<>>
    ELSE <<Tok("NDARRAY", Head(items))>> \o PickleArrays(Tail(items))

\* pickle.dump(obj, f) for the objects that are pickled: a dict of str, None,
\* a list of arrays, or a map object, which is pickled as the call that
\* makes it again from its function and from what is left to iterate on
PickleDump(obj) ==
    <<Tok("PROTO", "")>> \o
    (IF obj.t = "map"
     THEN <<Tok("GLOBAL", "map"), Tok("MARK", ""), Tok("GLOBAL", "fit_func")>>
          \o PickleArrays(obj.items) \o <<Tok("TUPLE", ""), Tok("REDUCE", "")>>
     ELSE IF obj.t = "list"
     THEN <<Tok("EMPTY_LIST", "")>> \o
          (CASE Len(obj.items) = 0 -> <<>>
             [] Len(obj.items) = 1 -> PickleArrays(obj.items) \o <<Tok("APPEND", "")>>
             [] OTHER -> <<Tok("MARK", "")>> \o PickleArrays(obj.items)
                         \o <<Tok("APPENDS", "")>>)
     ELSE IF obj.t = "dict"
     THEN <<Tok("EMPTY_DICT", "")>> \o
          (CASE Len(obj.items) = 0 -> <<>>
             [] Len(obj.items) = 1 -> PickleItems(obj.items) \o <<Tok("SETITEM", "")>>
             [] OTHER -> <<Tok("MARK", "")>> \o PickleItems(obj.items)
                         \o <<Tok("SETITEMS", "")>>)
     ELSE <<Tok("NONE", "")>>) \o
    <<Tok("STOP", "")>>

Top(stack) == stack[Len(stack)]
Pop(stack, n) == SubSeq(stack, 1, Len(stack) - n)

\* position of the topmost mark of the unpickler's stack
MarkPos(stack) ==
    CHOOSE m \in 1..Len(stack) :
        /\ stack[m].t = "mark"
        /\ \A j \in (m+1)..Len(stack) : stack[j].t # "mark"

RECURSIVE SetItems(_, _)
SetItems(d, kvs) ==
    IF Len(kvs) < 2 THEN d
    ELSE SetItems(DictSet(d, kvs[1].s, kvs[2].s), SubSeq(kvs, 3, Len(kvs)))

\* the unpickler: a stack machine that stops at the first STOP opcode
RECURSIVE Unpickle(_, _, _)
Unpickle(bytes, i, stack) ==
    IF i > Len(bytes) THEN PyEOFError
    ELSE LET op == bytes[i].op
             arg == bytes[i].arg
         IN CASE op = "PROTO" -> Unpickle(bytes, i + 1, stack)
              [] op = "NONE" -> Unpickle(bytes, i + 1, Append(stack, PyNone))
              [] op = "EMPTY_DICT" -> Unpickle(bytes, i + 1, Append(stack, PyDict(<<>>)))
              [] op = "MARK" -> Unpickle(bytes, i + 1, Append(stack, PyMark))
              [] op = "BINUNICODE" -> Unpickle(bytes, i + 1, Append(stack, PyStr(arg)))
              [] op = "GLOBAL" -> Unpickle(bytes, i + 1, Append(stack, PyStr(arg)))
              [] op = "TUPLE" ->
                    LET m == MarkPos(stack)
                    IN  Unpickle(bytes, i + 1,
                            Append(Pop(stack, Len(stack) - m + 1),
                                   PyList([j \in 1..(Len(stack) - m) |-> stack[m + j].s])))
              [] op = "REDUCE" ->
                    LET n == Len(stack)
                    IN  Unpickle(bytes, i + 1,
                            Append(Pop(stack, 2), PyMapObject(Tail(stack[n].items))))
              [] op = "EMPTY_LIST" -> Unpickle(bytes, i + 1, Append(stack, PyList(<<>>)))
              [] op = "NDARRAY" -> Unpickle(bytes, i + 1, Append(stack, PyStr(arg)))
              [] op = "APPEND" ->
                    LET n == Len(stack)
                    IN  Unpickle(bytes, i + 1,
                            Append(Pop(stack, 2),
                                   PyList(Append(stack[n-1].items, stack[n].s))))
              [] op = "APPENDS" ->
                    LET m == MarkPos(stack)
                    IN  Unpickle(bytes, i + 1,
                            Append(Pop(stack, Len(stack) - m + 2),
                                   PyList(stack[m-1].items \o
                                          [j \in 1..(Len(stack) - m) |-> stack[m + j].s])))
              [] op = "SETITEM" ->
                    LET n == Len(stack)
                    IN  Unpickle(bytes, i + 1,
                            Append(Pop(stack, 3),
                                   DictSet(stack[n-2], stack[n-1].s, stack[n].s)))
              [] op = "SETITEMS" ->
                    LET m == MarkPos(stack)
                    IN  Unpickle(bytes, i + 1,
                            Append(Pop(stack, Len(stack) - m + 2),
                                   SetItems(stack[m-1], SubSeq(stack, m + 1, Len(stack)))))
              [] OTHER -> Top(stack)

\* pickle.load(f) on a file opened 'rb'
PickleLoad(bytes) == Unpickle(bytes, 1, <<>>)

NoFile == <<Tok("ENOENT", "")>>

\* open(fn, 'ab') would keep what the file held
FileWriteAppend(old, bytes) == IF old = NoFile THEN bytes ELSE old \o bytes

\* open(fn, 'wb'); pickle.dump(obj, f); f.close() : the file is truncated first
FileWrite(old, bytes) == bytes

-----------------------------------------------------------------------------
(* The recipe: step descriptors and the names run() can resolve *)

\* the run_XXX functions of brutifus.py, i.e. the XXX with 'run_' + XXX in globals()
StepNames == {"adjust_WCS", "crude_snr_maps", "plot_BW", "plot_RGB", "sky_sub",
              "gal_dered", "fit_continuum", "make_continuum_cube",
              "subtract_continuum"}

Descriptor(step, run, suffix, name_in, name_out, method) ==
    [step |-> step, run |-> run, suffix |-> suffix,
     name_in |-> name_in, name_out |-> name_out, method |-> method]

Suffixes == {"s"}
InNames == {"raw_cube", "cube"}
OutNames == {"cube"}
Methods == {"lowess", "spline"}

\* args: the keyword arguments each implementation accepts ("-" : not an argument)
ArgsOf(step, run, suffix) ==
    CASE step \in {"adjust_WCS", "sky_sub", "gal_dered"} ->
            {Descriptor(step, run, suffix, i, o, "-") : i \in InNames, o \in OutNames}
      [] step \in {"crude_snr_maps", "plot_BW", "plot_RGB"} ->
            {Descriptor(step, run, suffix, i, "-", "-") : i \in InNames}
      [] step = "fit_continuum" ->
            {Descriptor(step, run, suffix, i, "-", m) : i \in InNames, m \in Methods}
      [] step = "make_continuum_cube" ->
            {Descriptor(step, run, suffix, "-", "-", "lowess")}
      [] step = "subtract_continuum" ->
            {Descriptor(step, run, suffix, i, o, "lowess") : i \in InNames, o \in OutNames}
      [] OTHER -> {Descriptor(step, run, suffix, "-", "-", "-")}

\* the steps a recipe is drawn from. Of a step that is switched off run()
\* looks at the name only, to resolve it: one choice of arguments and a few
\* names, one of them unknown, stand for all of them
OffSteps == {"plot_BW", "fit_continuum", "bogus"}

OffArgs(step, suffix) == CHOOSE d \in ArgsOf(step, FALSE, suffix) : TRUE

Descriptors ==
    UNION {ArgsOf(n, TRUE, x) : n \in StepNames \cup {"bogus"}, x \in Suffixes}
    \cup {OffArgs(n, x) : n \in OffSteps, x \in Suffixes}

Recipes == UNION {[1..n -> Descriptors] : n \in 0..MaxSteps}

-----------------------------------------------------------------------------
(* File names *)

\* os.path.join(params['data_loc'], params['data_fn'])
RawPath == "data_loc/data_fn"

\* os.path.join(bifus_m.prod_loc, suffix + '_' + params['target'] + tail)
ProdPath(suffix, tail) == "prod_loc/" \o suffix \o "_target" \o tail

\* os.path.join(bifus_m.tmp_loc, prefix + ...): the row files of one prefix,
\* taken together where the rows are not told apart
TmpPath(prefix) == "tmp_loc/" \o prefix

-----------------------------------------------------------------------------
(* What the files hold *)

RECURSIVE Join(_)
Join(q) == IF q = <<>> THEN ""
           ELSE IF Len(q) = 1 THEN q[1]
           ELSE q[1] \o "," \o Join(Tail(q))

\* a step computes what it writes from what it has read: the data of a
\* product is named by the file and by the data it was derived from
Derive(path, ins) == path \o "<" \o Join(ins) \o ">"

\* a file that is added to instead of replaced
WriteFileAppend(c, path, data) ==
    [q \in DOMAIN c \cup {path} |->
        IF q = path
        THEN (IF path \in DOMAIN c THEN c[path] \o "+" \o data ELSE data)
        ELSE c[q]]

\* hdu.writeto(fn, overwrite=True)
WriteFile(c, path, data) ==
    [q \in DOMAIN c \cup {path} |-> IF q = path THEN data ELSE c[q]]

\* cont_cube = np.zeros_like(data) * np.nan, then the row files that exist
ReadRows(c, prefix) ==
    IF TmpPath(prefix) \in DOMAIN c THEN c[TmpPath(prefix)] ELSE "nan"

-----------------------------------------------------------------------------
(* The step implementations, as the list of what each does to fn_list and  *)
(* to the files, in program order                                          *)

\* bifus_t.extract_cube(fn_list[key], inst)
Extract(key) == [op |-> "extract", key |-> key, val |-> "", write |-> FALSE]
\* fn_list[key] = val ; hdu.writeto(fn_list[key], overwrite=True)
Put(key, val) == [op |-> "put", key |-> key, val |-> val, write |-> TRUE]
\* fn_list[key] = val, no file of that name written
Name(key, val) == [op |-> "put", key |-> key, val |-> val, write |-> FALSE]
\* fn_list[key] read
Lookup(key) == [op |-> "lookup", key |-> key, val |-> "", write |-> FALSE]
\* a call into a collaborator that returns or raises
Call(what) == [op |-> "call", key |-> what, val |-> "", write |-> FALSE]
\* file = open(fn, 'wb'); pickle.dump(conts, file), for the rows as a whole
Write(path) == [op |-> "write", key |-> "", val |-> path, write |-> TRUE]
\* if method == 'lowess': ... else: raise
Method(m) == [op |-> "method", key |-> m, val |-> "", write |-> FALSE]

run_adjust_WCS(d) ==
    << Extract(d.name_in),
       Put("white_light", ProdPath(d.suffix, "_white_light.fits")),
       Call("get_linear_WCS_corr"),
       Put(d.name_out, ProdPath(d.suffix, "_wcs-corr.fits")) >>

run_crude_snr_maps(d) ==
    << Extract(d.name_in),
       Call("snr_ranges"),
       Put("snr_maps", ProdPath(d.suffix, "_snr-maps.fits")),
       Call("make_2Dplot") >>

run_plot_BW(d) ==
    << Extract(d.name_in), Call("make_2Dplot") >>

run_plot_RGB(d) ==
    << Extract(d.name_in), Call("make_RGBplot") >>

run_sky_sub(d) ==
    << Extract(d.name_in),
       Call("sky_regions"),
       Put("wl_im", ProdPath(d.suffix, "_wl-im.fits")),
       Call("make_2Dplot"),
       Put(d.name_out, ProdPath(d.suffix, "_skysub-cube.fits")) >>

run_gal_dered(d) ==
    << Extract(d.name_in),
       Call("galactic_red"),
       Put(d.name_out, ProdPath(d.suffix, "_gal-dered_cube.fits")),
       Call("make_galred_plot") >>

\* the loop on rows is taken as a whole here: it ends or it raises
run_fit_continuum(d) ==
    << Extract(d.name_in),
       Method(d.method),
       Call("rows"),
       Write(TmpPath(d.suffix \o "_target_" \o d.method \o "_row_")),
       Name(d.method \o "_pickle", d.suffix \o "_target_" \o d.method \o "_row_") >>

run_make_continuum_cube(d) ==
    << Extract("raw_cube"),
       Lookup(d.method \o "_pickle"),
       Call("rows"),
       Method(d.method),
       Put(d.method \o "_cube", ProdPath(d.suffix, "_" \o d.method \o ".fits")) >>

run_subtract_continuum(d) ==
    << Extract(d.name_in),
       Extract(d.method \o "_cube"),
       Put(d.name_out, ProdPath(d.suffix, "_" \o d.method \o "-contsub-cube.fits")) >>

\* globals()['run_' + step_name]
Func(d) ==
    CASE d.step = "adjust_WCS" -> run_adjust_WCS(d)
      [] d.step = "crude_snr_maps" -> run_crude_snr_maps(d)
      [] d.step = "plot_BW" -> run_plot_BW(d)
      [] d.step = "plot_RGB" -> run_plot_RGB(d)
      [] d.step = "sky_sub" -> run_sky_sub(d)
      [] d.step = "gal_dered" -> run_gal_dered(d)
      [] d.step = "fit_continuum" -> run_fit_continuum(d)
      [] d.step = "make_continuum_cube" -> run_make_continuum_cube(d)
      [] d.step = "subtract_continuum" -> run_subtract_continuum(d)
      [] OTHER -> <<>>

-----------------------------------------------------------------------------
(* run_fit_continuum and run_make_continuum_cube, row by row: the data     *)

NAXIS1 == MaxRows
NAXIS2 == MaxCols

\* start_row=None, end_row=None
NoneRow == -1

Digits == <<"0", "1", "2", "3", "4", "5", "6", "7", "8", "9">>

\* str(n), one character after the other
RECURSIVE StrDigits(_)
StrDigits(n) ==
    IF n < 10 THEN <<Digits[n + 1]>>
    ELSE StrDigits(n \div 10) \o <<Digits[(n % 10) + 1]>>

RECURSIVE Concat(_)
Concat(q) == IF q = <<>> THEN "" ELSE Head(q) \o Concat(Tail(q))

Str(n) == Concat(StrDigits(n))

ZfillWidth == 4

\* a fixed-width field that keeps the last w characters
ZfillCut(d, w) ==
    IF Len(d) >= w THEN SubSeq(d, Len(d) - w + 1, Len(d))
    ELSE [i \in 1..(w - Len(d)) |-> "0"] \o d

\* s.zfill(w): zeros on the left up to w characters, nothing cut
Zfill(d, w) ==
    IF Len(d) >= w THEN d ELSE [i \in 1..(w - Len(d)) |-> "0"] \o d

\* str(np.int(row)).zfill(4)
RowTag(row) == Concat(Zfill(StrDigits(row), ZfillWidth))

\* suffix+'_' + params['target'] + '_' + method + '_row_'
PicklePrefix(suffix, method) == suffix \o "_target_" \o method \o "_row_"

\* the fitter's name of the file of a row
FitName(suffix, method, row) ==
    "tmp_loc/" \o suffix \o "_target_" \o method \o "_row_" \o RowTag(row) \o ".pkl"

\* the assembler's name of the file of a row
AsmName(reg, method, row) ==
    "tmp_loc/" \o DictGet(reg, method \o "_pickle") \o RowTag(row) \o ".pkl"

\* data[:, i, row] * good_spaxels[i] : the spectrum of column i of a row
SpecOf(i, row) == "x" \o Str(i) \o "_" \o Str(row)

\* fit_func = partial(bifus_cof.lowess_fit, lams=lams, frac=..., it=...)
LowessFit(spec) == "lowess(" \o spec \o ")"

\* specs = [... for i in range(header_data['NAXIS2'])]
Specs(row) == [i \in 1..NAXIS2 |-> SpecOf(i - 1, row)]

\* an array that stops one short of its end
LinspaceNoEnd(a, b, num) ==
    [k \in 1..(num - 1) |-> a + (k - 1)]

\* np.linspace(a, b, num).astype(int), num >= 0
Linspace(a, b, num) ==
    IF num = 1 THEN <<a>>
    ELSE [k \in 1..num |-> a + ((k - 1) * (b - a)) \div (num - 1)]

\* if start_row is None: start_row = 0
StartRow(a) == IF a.start_row = NoneRow THEN 0 ELSE a.start_row

\* if end_row is None: end_row = nrows-1
EndRow(a) == IF a.end_row = NoneRow THEN NAXIS1 - 1 ELSE a.end_row

\* the values of params['multiprocessing'] : False, True, 2 and 'all', a
\* value that is true and is no int
MpValues == {[t |-> "bool", n |-> 0], [t |-> "bool", n |-> 1],
             [t |-> "int", n |-> 2], [t |-> "str", n |-> 1]}

\* if params['multiprocessing']:
Truthy(v) == v.n # 0

\* multiprocessing.cpu_count() of the machine
CpuCount == 4

\* if isinstance(params['multiprocessing'], int): nproc = the parameter,
\* else: nproc = multiprocessing.cpu_count(). bool is a subclass of int, so
\* True is taken as the count, and Pool(processes=True) has range(True)
\* workers
NProc(v) == IF v.t \in {"int", "bool"} THEN v.n ELSE CpuCount

\* pool.close() alone: no more jobs, the workers not waited for
CloseOnly(ps) == [ps EXCEPT ![Len(ps)].st = "closed"]

\* pool.close(); pool.join() on the pool made last
CloseJoin(ps) == [ps EXCEPT ![Len(ps)].st = "joined"]

\* the results handed back in the order the jobs ended
MapResultAsCompleted(res, ord) == [k \in 1..Len(ord) |-> res[ord[k]]]

\* pool.map(f, xs): the result of job i is element i of the list
MapResult(res, ord) == res

\* the fitted spectra of a row, as a pool hands them back
RowConts(row) ==
    MapResult([i \in 1..NAXIS2 |-> LowessFit(Specs(row)[i])],
              [i \in 1..NAXIS2 |-> i])

NoTmp == [q \in {} |-> <<>>]

\* file = open(fn, 'wb'); ...write(bytes); file.close()
TmpWrite(t, fn, bytes) ==
    [q \in DOMAIN t \cup {fn} |->
        IF q = fn
        THEN FileWrite(IF fn \in DOMAIN t THEN t[fn] ELSE NoFile, bytes)
        ELSE t[q]]

\* the files of tmp_loc after a fitter with a pool has gone through rows q
RECURSIVE FitRange(_, _)
FitRange(t, q) ==
    IF q = <<>> THEN t
    ELSE FitRange(TmpWrite(t, FitName("s", "lowess", Head(q)),
                           PickleDump(PyList(RowConts(Head(q))))),
                  Tail(q))

\* cont_cube = np.zeros_like(data)
ZeroCube == [r \in 1..NAXIS1 |-> [i \in 1..NAXIS2 |-> "0"]]

\* cont_cube = np.zeros_like(data) * np.nan
NanCube == [r \in 1..NAXIS1 |-> [i \in 1..NAXIS2 |-> "nan"]]

-----------------------------------------------------------------------------
(* run() *)

\* what an earlier run for the same target can have left behind
SeedDict == PyDict(<< <<"raw_cube", RawPath>> >>)

PriorDicts ==
    { DictSet(DictSet(SeedDict, "white_light", ProdPath("s", "_white_light.fits")),
              "cube", ProdPath("s", "_wcs-corr.fits")) }

DictFiles(d) == {d.items[i][2] : i \in 1..Len(d.items)}

\* no fitter and no assembler has been called yet
FitIdle ==
    /\ args = [start_row |-> NoneRow, end_row |-> NoneRow, method |-> "-"]
    /\ fpc = "idle"
    /\ rows = <<>>
    /\ fpos = 0
    /\ jobs = <<>>
    /\ results = <<>>
    /\ order = <<>>
    /\ conts = PyNone
    /\ pool = "none"
    /\ pools = <<>>
    /\ sig = "default"
    /\ cont_cube = <<>>
    /\ written = <<>>
    /\ sigRow = NoneRow
    /\ fits = <<>>
    /\ fitEnd = ""

NoNames == [r1 |-> 0, r2 |-> 0, w |-> "", r |-> ""]

\* the files of an earlier run, each derived from the raw cube
PriorContent(d) ==
    [q \in DictFiles(d) |-> IF q = RawPath THEN "raw" ELSE Derive(q, <<"raw">>)]

Init ==
    /\ params_ok \in BOOLEAN
    /\ procsteps_ok \in BOOLEAN
    /\ procsteps \in (IF params_ok /\ procsteps_ok THEN Recipes ELSE {<<>>})
    /\ \/ /\ regFile = NoFile
          /\ persisted = PyNone
          /\ disk \in {{}, {RawPath}}
          /\ content = [q \in disk |-> "raw"]
       \/ \E d \in PriorDicts :
             /\ regFile = PickleDump(d)
             /\ persisted = d
             /\ disk = DictFiles(d)
             /\ content = PriorContent(d)
    /\ fn_list = PyNone
    /\ pc = "start"
    /\ idx = 0
    /\ ip = 0
    /\ err = ""
    /\ calls = <<>>
    /\ handed = PyNone
    /\ lastRet = PyNone
    /\ regFile0 = regFile
    /\ fileAtCall = regFile
    /\ loads = 0
    /\ writes = 0
    /\ everPut = {}
    /\ inputs = <<>>
    /\ runs = 1
    /\ end1 = [reg |-> regFile, content |-> content]
    /\ FitIdle
    /\ mp = [t |-> "bool", n |-> 0]
    /\ plan = <<>>
    /\ tmp = NoTmp
    /\ tmp0 = NoTmp
    /\ regAtCall = regFile
    /\ names = NoNames

\* an exception raised by run() itself
Raise(e) ==
    /\ pc' = "aborted"
    /\ err' = e
    /\ regFile' = regFile

\* a call wrapped in try: ... finally: pickle.dump(fn_list, f) would save here
PropagateSaving(file, mem) == PickleDump(mem)

\* an exception raised inside func(...): the call is not wrapped, the
\* exception leaves run() and the dictionary the step was working on is lost
Propagate(file, mem) == file

StepRaise(e) ==
    /\ pc' = "aborted"
    /\ err' = e
    /\ regFile' = Propagate(regFile, fn_list)

\* only the parameter file checked
FilesOkParamsOnly(p, s) == p

\* the two os.path.isfile checks that open run()
FilesOk(p, s) == p /\ s

CheckFiles ==
    /\ pc = "start"
    /\ IF FilesOk(params_ok, procsteps_ok)
       THEN pc' = "seed" /\ UNCHANGED <<err, regFile>>
       ELSE Raise("Exception: failed to load")
    /\ UNCHANGED <<params_ok, procsteps_ok, procsteps, disk, fn_list, idx, ip,
                   calls, handed, lastRet, persisted, regFile0, fileAtCall,
                   loads, writes, everPut>>
    /\ UNCHANGED <<content, inputs, runs, end1>>
    /\ UNCHANGED fitvars

\* a fresh dictionary at every run
NeedsSeedAlways(file) == TRUE

\* if not os.path.isfile(fn)
NeedsSeed(file) == file = NoFile

\* the dictionary saved before the raw file is checked
SeedFileUnchecked(file, rawFound, d) == PickleDump(d)

\* the check of the raw file comes before the dictionary is saved
SeedFile(file, rawFound, d) ==
    IF rawFound THEN FileWrite(file, PickleDump(d)) ELSE file

SeedRegistry ==
    /\ pc = "seed"
    /\ IF NeedsSeed(regFile)
       THEN /\ fn_list' = SeedDict
            /\ regFile' = SeedFile(regFile, RawPath \in disk, SeedDict)
            /\ IF RawPath \in disk
               THEN /\ pc' = "loop"
                    /\ idx' = 1
                    /\ persisted' = SeedDict
                    /\ writes' = writes + 1
                    /\ err' = err
               ELSE /\ pc' = "aborted"
                    /\ err' = "Exception: raw file not found"
                    /\ UNCHANGED <<idx, persisted, writes>>
       ELSE /\ pc' = "loop"
            /\ idx' = 1
            /\ UNCHANGED <<fn_list, regFile, persisted, writes, err>>
    /\ UNCHANGED <<params_ok, procsteps_ok, procsteps, disk, ip, calls, handed,
                   lastRet, regFile0, fileAtCall, loads, everPut>>
    /\ UNCHANGED <<content, inputs, runs, end1>>
    /\ UNCHANGED fitvars

\* the lookup moved inside 'if step_run:'
LookupFailsIfRun(step) == step.run /\ step.step \notin StepNames

\* a lookup with a default, globals().get(func_name, ...)
LookupNeverFails(step) == FALSE

\* func = globals()[func_name] raises KeyError for a name that is not there;
\* it is evaluated for every step of the recipe, before step_run is looked at
LookupFails(step) == step.step \notin StepNames

\* the run flag ignored
ShouldRunAlways(step) == TRUE

\* if step_run:
ShouldRun(step) == step.run

\* a loop that steps over every other entry
NextIdxSkip(i) == i + 2

\* for step in procsteps: the step after position i
NextIdx(i) == i + 1

NextStep ==
    /\ pc = "loop"
    /\ idx <= Len(procsteps)
    /\ IF LookupFails(procsteps[idx])
       THEN Raise("KeyError: func") /\ idx' = idx
       ELSE /\ UNCHANGED <<err, regFile>>
            /\ IF ShouldRun(procsteps[idx])
               THEN pc' = "load" /\ idx' = idx
               ELSE pc' = "loop" /\ idx' = NextIdx(idx)
    /\ UNCHANGED <<params_ok, procsteps_ok, procsteps, disk, fn_list, ip,
                   calls, handed, lastRet, persisted, regFile0, fileAtCall,
                   loads, writes, everPut>>
    /\ UNCHANGED <<content, inputs, runs, end1>>
    /\ UNCHANGED fitvars

Finish ==
    /\ pc = "loop"
    /\ idx > Len(procsteps)
    /\ pc' = "done"
    /\ UNCHANGED <<params_ok, procsteps_ok, procsteps, disk, regFile, fn_list,
                   idx, ip, err, calls, handed, lastRet, persisted, regFile0,
                   fileAtCall, loads, writes, everPut>>
    /\ UNCHANGED <<content, inputs, runs, end1>>
    /\ UNCHANGED fitvars

\* the dictionary kept in memory instead of read back
LoadedStale(file, mem) == mem

\* f = open(fn, 'rb'); fn_list = pickle.load(f); f.close()
Loaded(file, mem) == PickleLoad(file)

LoadRegistry ==
    /\ pc = "load"
    /\ fn_list' = Loaded(regFile, fn_list)
    /\ loads' = loads + 1
    /\ pc' = "call"
    /\ UNCHANGED <<params_ok, procsteps_ok, procsteps, disk, regFile, idx, ip,
                   err, calls, handed, lastRet, persisted, regFile0,
                   fileAtCall, writes, everPut>>
    /\ UNCHANGED <<content, inputs, runs, end1>>
    /\ UNCHANGED fitvars

\* fn_list = func(fn_list, params, suffix=step_suffix, **step_args) : the call
Invoke ==
    /\ pc = "call"
    /\ calls' = Append(calls, idx)
    /\ handed' = fn_list
    /\ fileAtCall' = regFile
    /\ ip' = 1
    /\ pc' = "body"
    /\ UNCHANGED <<params_ok, procsteps_ok, procsteps, disk, regFile, fn_list,
                   idx, err, lastRet, persisted, regFile0, loads, writes,
                   everPut>>
    /\ inputs' = <<>>
    /\ UNCHANGED <<content, runs, end1>>
    /\ UNCHANGED fitvars

Body == Func(procsteps[idx])
InBody(kind) == pc = "body" /\ ip <= Len(Body) /\ Body[ip].op = kind

ExecExtract ==
    /\ InBody("extract")
    /\ IF ~DictHas(fn_list, Body[ip].key)
       THEN StepRaise("KeyError: fn_list") /\ ip' = ip
       ELSE IF DictGet(fn_list, Body[ip].key) \notin disk
            THEN StepRaise("Exception: file not found") /\ ip' = ip
            ELSE ip' = ip + 1 /\ UNCHANGED <<pc, err, regFile>>
    /\ inputs' = IF DictHas(fn_list, Body[ip].key)
                     /\ DictGet(fn_list, Body[ip].key) \in disk
                  THEN Append(inputs, content[DictGet(fn_list, Body[ip].key)])
                  ELSE inputs
    /\ UNCHANGED <<params_ok, procsteps_ok, procsteps, disk, fn_list, idx,
                   calls, handed, lastRet, persisted, regFile0, fileAtCall,
                   loads, writes, everPut>>
    /\ UNCHANGED <<content, runs, end1>>
    /\ UNCHANGED fitvars

\* fn_list[key] read, and the row files of that name with it
ExecLookup ==
    /\ InBody("lookup")
    /\ IF ~DictHas(fn_list, Body[ip].key)
       THEN StepRaise("KeyError: fn_list") /\ ip' = ip
       ELSE ip' = ip + 1 /\ UNCHANGED <<pc, err, regFile>>
    /\ inputs' = IF DictHas(fn_list, Body[ip].key)
                  THEN Append(inputs,
                              ReadRows(content, DictGet(fn_list, Body[ip].key)))
                  ELSE inputs
    /\ UNCHANGED <<params_ok, procsteps_ok, procsteps, disk, fn_list, idx,
                   calls, handed, lastRet, persisted, regFile0, fileAtCall,
                   loads, writes, everPut>>
    /\ UNCHANGED <<content, runs, end1>>
    /\ UNCHANGED fitvars

ExecPut ==
    /\ InBody("put")
    /\ fn_list' = DictSet(fn_list, Body[ip].key, Body[ip].val)
    /\ disk' = IF Body[ip].write THEN disk \cup {Body[ip].val} ELSE disk
    /\ content' = IF Body[ip].write
                   THEN WriteFile(content, Body[ip].val,
                                  Derive(Body[ip].val, inputs))
                   ELSE content
    /\ everPut' = everPut \cup {Body[ip].key}
    /\ ip' = ip + 1
    /\ UNCHANGED <<params_ok, procsteps_ok, procsteps, regFile, pc, idx, err,
                   calls, handed, lastRet, persisted, regFile0, fileAtCall,
                   loads, writes>>
    /\ UNCHANGED <<inputs, runs, end1>>
    /\ UNCHANGED fitvars

\* the row files written, no key of fn_list assigned
ExecWrite ==
    /\ InBody("write")
    /\ disk' = disk \cup {Body[ip].val}
    /\ content' = WriteFile(content, Body[ip].val,
                            Derive(Body[ip].val, inputs))
    /\ ip' = ip + 1
    /\ UNCHANGED <<params_ok, procsteps_ok, procsteps, regFile, fn_list, pc,
                   idx, err, calls, handed, lastRet, persisted, regFile0,
                   fileAtCall, loads, writes, everPut>>
    /\ UNCHANGED <<inputs, runs, end1>>
    /\ UNCHANGED fitvars

ExecCall ==
    /\ InBody("call")
    /\ \/ ip' = ip + 1 /\ UNCHANGED <<pc, err, regFile>>
       \/ StepRaise("Exception: step") /\ ip' = ip
    /\ UNCHANGED <<params_ok, procsteps_ok, procsteps, disk, fn_list, idx,
                   calls, handed, lastRet, persisted, regFile0, fileAtCall,
                   loads, writes, everPut>>
    /\ UNCHANGED <<content, inputs, runs, end1>>
    /\ UNCHANGED fitvars

ExecMethod ==
    /\ InBody("method")
    /\ IF Body[ip].key = "lowess"
       THEN ip' = ip + 1 /\ UNCHANGED <<pc, err, regFile>>
       ELSE StepRaise("Exception: method") /\ ip' = ip
    /\ UNCHANGED <<params_ok, procsteps_ok, procsteps, disk, fn_list, idx,
                   calls, handed, lastRet, persisted, regFile0, fileAtCall,
                   loads, writes, everPut>>
    /\ UNCHANGED <<content, inputs, runs, end1>>
    /\ UNCHANGED fitvars

\* return fn_list
StepReturn ==
    /\ pc = "body"
    /\ ip > Len(Body)
    /\ lastRet' = fn_list
    /\ pc' = "save"
    /\ UNCHANGED <<params_ok, procsteps_ok, procsteps, disk, regFile, fn_list,
                   idx, ip, err, calls, handed, persisted, regFile0,
                   fileAtCall, loads, writes, everPut>>
    /\ UNCHANGED <<content, inputs, runs, end1>>
    /\ UNCHANGED fitvars

\* f = open(fn, 'wb'); fn_list = pickle.dump(fn_list, f); f.close()
SaveRegistry ==
    /\ pc = "save"
    /\ regFile' = FileWrite(regFile, PickleDump(fn_list))
    /\ persisted' = fn_list
    /\ fn_list' = PyNone
    /\ writes' = writes + 1
    /\ idx' = NextIdx(idx)
    /\ ip' = 0
    /\ pc' = "loop"
    /\ UNCHANGED <<params_ok, procsteps_ok, procsteps, disk, err, calls,
                   handed, lastRet, regFile0, fileAtCall, loads, everPut>>
    /\ UNCHANGED <<content, inputs, runs, end1>>
    /\ UNCHANGED fitvars

Next ==
    \/ CheckFiles
    \/ SeedRegistry
    \/ NextStep
    \/ Finish
    \/ LoadRegistry
    \/ Invoke
    \/ ExecExtract
    \/ ExecLookup
    \/ ExecPut
    \/ ExecWrite
    \/ ExecCall
    \/ ExecMethod
    \/ StepReturn
    \/ SaveRegistry

Spec == Init /\ [][Next]_vars

-----------------------------------------------------------------------------
(* run() started again on the same recipe, once it has completed *)

Rerun ==
    /\ pc = "done"
    /\ runs < MaxRuns
    /\ runs' = runs + 1
    /\ end1' = IF runs = 1 THEN [reg |-> regFile, content |-> content] ELSE end1
    /\ pc' = "start"
    /\ fn_list' = PyNone
    /\ idx' = 0
    /\ ip' = 0
    /\ calls' = <<>>
    /\ handed' = PyNone
    /\ lastRet' = PyNone
    /\ regFile0' = regFile
    /\ fileAtCall' = regFile
    /\ loads' = 0
    /\ writes' = 0
    /\ everPut' = {}
    /\ inputs' = <<>>
    /\ UNCHANGED <<params_ok, procsteps_ok, procsteps, disk, regFile, err,
                   persisted, content>>
    /\ UNCHANGED fitvars

NextRerun ==
    \/ Next
    \/ Rerun

SpecRerun == Init /\ [][NextRerun]_vars

-----------------------------------------------------------------------------
(* run_fit_continuum and run_make_continuum_cube, row by row: the steps    *)

\* the row the loop is at
Row == rows[fpos]

\* the calls of run_fit_continuum that are tried: every span of rows of the
\* cube, either end given or left out, and a method that is not there
FitArgs ==
    {[start_row |-> a, end_row |-> b, method |-> "lowess"] :
        a \in {NoneRow} \cup 0..(NAXIS1 - 1), b \in {NoneRow} \cup 0..(NAXIS1 - 1)}
    \cup {[start_row |-> NoneRow, end_row |-> NoneRow, method |-> "spline"]}

\* a fit function picked whatever the method
FitFuncAny(method) == "lowess_fit"

\* if method == 'lowess': fit_func = partial(bifus_cof.lowess_fit, ...)
\* else: raise Exception('Continuum fitting method "%s" not supported.')
FitFunc(method) == IF method = "lowess" THEN "lowess_fit" ELSE "Exception"

\* initializer=bifus_t.init_worker() : init_worker is called where the pool
\* is made, in the process that runs the fitter, which from then on ignores
\* SIGINT
SigAfterPool(s) == "ignore"

\* run() loads the dictionary and calls run_fit_continuum, which gets the
\* cube, settles the span of rows and picks the fit function
FitCall ==
    /\ fpc = "idle"
    /\ plan # <<>>
    /\ Head(plan) = "fit"
    /\ \E a \in FitArgs :
         /\ args' = a
         /\ IF FitFunc(a.method) = "Exception"
            THEN /\ fpc' = "raised"
                 /\ err' = "Exception: method"
                 /\ fitEnd' = "raised"
                 /\ rows' = <<>>
            ELSE IF EndRow(a) - StartRow(a) + 1 < 0
                 THEN /\ fpc' = "raised"
                      /\ err' = "ValueError: linspace"
                      /\ fitEnd' = "raised"
                      /\ rows' = <<>>
                 ELSE /\ fpc' = "loop"
                      /\ err' = ""
                      /\ fitEnd' = ""
                      /\ rows' = Linspace(StartRow(a), EndRow(a),
                                         EndRow(a) - StartRow(a) + 1)
    /\ fn_list' = Loaded(regFile, fn_list)
    /\ regAtCall' = regFile
    /\ fpos' = 1
    /\ written' = <<>>
    /\ sigRow' = NoneRow
    /\ conts' = PyNone
    /\ UNCHANGED <<regFile, persisted, mp, plan, jobs, results, order, pool,
                   sig, tmp, cont_cube, fits, tmp0, names,
                   pools>>
    /\ UNCHANGED seqvars

\* the head of the loop on rows: the spectra of the row, then a pool with
\* its jobs, or map() when there is no multiprocessing
RowBegin ==
    /\ fpc = "loop"
    /\ fpos <= Len(rows)
    /\ IF Truthy(mp)
       THEN /\ sig' = SigAfterPool(sig)
            /\ pool' = "open"
            /\ pools' = Append(pools, [st |-> "open", n |-> NProc(mp)])
            /\ jobs' = [i \in 1..NAXIS2 |-> "queued"]
            /\ results' = [i \in 1..NAXIS2 |-> ""]
            /\ order' = <<>>
            /\ fpc' = "map"
            /\ conts' = conts
       ELSE /\ conts' = PyMapObject(Specs(Row))
            /\ fpc' = "persist"
            /\ UNCHANGED <<sig, pool, pools, jobs, results, order>>
    /\ UNCHANGED <<fn_list, regFile, persisted, err, mp, plan, args, rows,
                   fpos, tmp, cont_cube, written, sigRow, fits, tmp0,
                   regAtCall, fitEnd, names>>
    /\ UNCHANGED seqvars

\* a worker ends the job of a column
WorkerDone ==
    /\ fpc = "map"
    /\ \E i \in 1..NAXIS2 :
         /\ jobs[i] = "queued"
         /\ jobs' = [jobs EXCEPT ![i] = "done"]
         /\ results' = [results EXCEPT ![i] = LowessFit(Specs(Row)[i])]
         /\ order' = Append(order, i)
    /\ UNCHANGED <<fn_list, regFile, persisted, err, mp, plan, args, fpc,
                   rows, fpos, conts, pool, sig, tmp, cont_cube, written,
                   sigRow, fits, tmp0, regAtCall, fitEnd, names,
                   pools>>
    /\ UNCHANGED seqvars

\* fit_func raises in a worker
WorkerFail ==
    /\ fpc = "map"
    /\ \E i \in 1..NAXIS2 :
         /\ jobs[i] = "queued"
         /\ jobs' = [jobs EXCEPT ![i] = "failed"]
    /\ UNCHANGED <<fn_list, regFile, persisted, err, mp, plan, args, fpc,
                   rows, fpos, results, order, conts, pool, sig, tmp,
                   cont_cube, written, sigRow, fits, tmp0, regAtCall, fitEnd,
                   names,
                   pools>>
    /\ UNCHANGED seqvars

\* conts = pool.map(fit_func, specs) returns; else: pool.close(); pool.join()
MapReturn ==
    /\ fpc = "map"
    /\ \A i \in 1..NAXIS2 : jobs[i] = "done"
    /\ conts' = PyList(MapResult(results, order))
    /\ pool' = "joined"
    /\ pools' = CloseJoin(pools)
    /\ fpc' = "persist"
    /\ UNCHANGED <<fn_list, regFile, persisted, err, mp, plan, args, rows,
                   fpos, jobs, results, order, sig, tmp, cont_cube, written,
                   sigRow, fits, tmp0, regAtCall, fitEnd, names>>
    /\ UNCHANGED seqvars

\* pool.map raises what the job raised: no KeyboardInterrupt, so it leaves
\* run_fit_continuum and run() with the pool as it is
MapRaise ==
    /\ fpc = "map"
    /\ \E i \in 1..NAXIS2 : jobs[i] = "failed"
    /\ fpc' = "raised"
    /\ err' = "Exception: fit_func"
    /\ fitEnd' = "raised"
    /\ UNCHANGED <<fn_list, regFile, persisted, mp, plan, args, rows, fpos,
                   jobs, results, order, conts, pool, sig, tmp, cont_cube,
                   written, sigRow, fits, tmp0, regAtCall, names,
                   pools>>
    /\ UNCHANGED seqvars

\* file = open(fn, 'wb'); pickle.dump(conts, file); file.close()
Persist ==
    /\ fpc = "persist"
    /\ tmp' = TmpWrite(tmp, FitName("s", args.method, Row), PickleDump(conts))
    /\ written' = Append(written, Row)
    /\ fpos' = fpos + 1
    /\ fpc' = "loop"
    /\ UNCHANGED <<fn_list, regFile, persisted, err, mp, plan, args, rows,
                   jobs, results, order, conts, pool, sig, cont_cube, sigRow,
                   fits, tmp0, regAtCall, fitEnd, names,
                   pools>>
    /\ UNCHANGED seqvars

\* fn_list[method + '_pickle'] = ... ; return fn_list, and run() saves it
FitReturn ==
    /\ fpc = "loop"
    /\ fpos > Len(rows)
    /\ fn_list' = PyNone
    /\ regFile' = FileWrite(regFile,
                     PickleDump(DictSet(fn_list, args.method \o "_pickle",
                                        PicklePrefix("s", args.method))))
    /\ persisted' = DictSet(fn_list, args.method \o "_pickle",
                            PicklePrefix("s", args.method))
    /\ fits' = Append(fits, [a |-> StartRow(args), b |-> EndRow(args)])
    /\ fitEnd' = "returned"
    /\ plan' = Tail(plan)
    /\ fpc' = "idle"
    /\ UNCHANGED <<err, mp, args, rows, fpos, jobs, results, order, conts,
                   pool, sig, tmp, cont_cube, written, sigRow, tmp0,
                   regAtCall, names,
                   pools>>
    /\ UNCHANGED seqvars

\* SIGINT comes while the fitter is at a row. A process that ignores it
\* goes on; otherwise KeyboardInterrupt is raised where the fitter is: inside
\* try: pool.map(...) the except branch closes and joins the pool and calls
\* sys.exit, elsewhere the exception leaves run_fit_continuum and run()
Sigint ==
    /\ fpc \in {"loop", "map"}
    /\ fpos <= Len(rows)
    /\ sigRow = NoneRow
    /\ sigRow' = IF fpc = "map" THEN Row ELSE sigRow
    /\ IF sig = "ignore"
       THEN UNCHANGED <<fpc, err, pool, pools, fitEnd>>
       ELSE IF fpc = "map"
            THEN /\ pool' = "joined"
                 /\ pools' = CloseJoin(pools)
                 /\ fpc' = "exited"
                 /\ err' = "Multiprocessing continuum fitting interrupted at row "
                           \o Str(Row)
                 /\ fitEnd' = "exited"
            ELSE /\ fpc' = "raised"
                 /\ err' = "KeyboardInterrupt"
                 /\ fitEnd' = "raised"
                 /\ UNCHANGED <<pool, pools>>
    /\ UNCHANGED <<fn_list, regFile, persisted, mp, plan, args, rows, fpos,
                   jobs, results, order, conts, sig, tmp, cont_cube, written,
                   fits, tmp0, regAtCall, names>>
    /\ UNCHANGED seqvars

\* the process is killed or the machine goes down
Kill ==
    /\ fpc \in {"loop", "map", "persist"}
    /\ fpc' = "killed"
    /\ fitEnd' = "killed"
    /\ UNCHANGED <<fn_list, regFile, persisted, err, mp, plan, args, rows,
                   fpos, jobs, results, order, conts, pool, sig, tmp,
                   cont_cube, written, sigRow, fits, tmp0, regAtCall, names,
                   pools>>
    /\ UNCHANGED seqvars

\* after a fitter that did not return, run() is started again, in a new
\* process, on a recipe with the assembling step alone
Restart ==
    /\ fpc \in {"raised", "killed", "exited"}
    /\ plan # <<>>
    /\ Head(plan) = "fit"
    /\ plan' = <<"make">>
    /\ fpc' = "idle"
    /\ sig' = "default"
    /\ pool' = "none"
    /\ pools' = <<>>
    /\ fn_list' = PyNone
    /\ err' = ""
    /\ UNCHANGED <<regFile, persisted, mp, args, rows, fpos, jobs, results,
                   order, conts, tmp, cont_cube, written, sigRow, fits, tmp0,
                   regAtCall, fitEnd, names>>
    /\ UNCHANGED seqvars

\* run() loads the dictionary and calls run_make_continuum_cube, which gets
\* the raw cube and makes a cube of nan
AsmCall ==
    /\ fpc = "idle"
    /\ plan # <<>>
    /\ Head(plan) = "make"
    /\ \E m \in Methods : args' = [args EXCEPT !.method = m]
    /\ fn_list' = Loaded(regFile, fn_list)
    /\ regAtCall' = regFile
    /\ cont_cube' = NanCube
    /\ rows' = [k \in 1..NAXIS1 |-> k - 1]
    /\ fpos' = 1
    /\ err' = ""
    /\ fpc' = "asm"
    /\ UNCHANGED <<regFile, persisted, mp, plan, jobs, results, order, conts,
                   pool, sig, tmp, written, sigRow, fits, tmp0, fitEnd,
                   names,
                   pools>>
    /\ UNCHANGED seqvars

\* one turn of for row in range(0, nrows): the name of the file of the row,
\* and the file loaded into the row of the cube if it is there
AsmRow ==
    /\ fpc = "asm"
    /\ fpos <= Len(rows)
    /\ IF ~DictHas(fn_list, args.method \o "_pickle")
       THEN /\ fpc' = "raised"
            /\ err' = "KeyError: fn_list"
            /\ UNCHANGED <<cont_cube, fpos>>
       ELSE IF AsmName(fn_list, args.method, Row) \notin DOMAIN tmp
       THEN /\ fpos' = fpos + 1
            /\ UNCHANGED <<cont_cube, fpc, err>>
       ELSE IF PickleLoad(tmp[AsmName(fn_list, args.method, Row)]).t = "EOFError"
       THEN /\ fpc' = "raised"
            /\ err' = "EOFError"
            /\ UNCHANGED <<cont_cube, fpos>>
       ELSE IF args.method # "lowess"
       THEN /\ fpc' = "raised"
            /\ err' = "Exception: method"
            /\ UNCHANGED <<cont_cube, fpos>>
       ELSE IF PickleLoad(tmp[AsmName(fn_list, args.method, Row)]).t = "map"
       THEN /\ fpc' = "raised"
            /\ err' = "TypeError: float() argument must be a number, not 'map'"
            /\ UNCHANGED <<cont_cube, fpos>>
       ELSE IF Len(PickleLoad(tmp[AsmName(fn_list, args.method, Row)]).items) # NAXIS2
       THEN /\ fpc' = "raised"
            /\ err' = "ValueError: shape"
            /\ UNCHANGED <<cont_cube, fpos>>
       ELSE /\ cont_cube' = [cont_cube EXCEPT ![Row + 1] =
                   PickleLoad(tmp[AsmName(fn_list, args.method, Row)]).items]
            /\ fpos' = fpos + 1
            /\ UNCHANGED <<fpc, err>>
    /\ UNCHANGED <<fn_list, regFile, persisted, mp, plan, args, rows, jobs,
                   results, order, conts, pool, sig, tmp, written, sigRow,
                   fits, tmp0, regAtCall, fitEnd, names,
                   pools>>
    /\ UNCHANGED seqvars

\* the cube written, fn_list[method+'_cube'] set, return fn_list, and run()
\* saves it
AsmReturn ==
    /\ fpc = "asm"
    /\ fpos > Len(rows)
    /\ IF args.method # "lowess"
       THEN /\ fpc' = "raised"
            /\ err' = "Exception: method"
            /\ UNCHANGED <<fn_list, regFile, persisted, plan>>
       ELSE /\ fn_list' = PyNone
            /\ regFile' = FileWrite(regFile,
                             PickleDump(DictSet(fn_list, args.method \o "_cube",
                                   ProdPath("s", "_" \o args.method \o ".fits"))))
            /\ persisted' = DictSet(fn_list, args.method \o "_cube",
                                   ProdPath("s", "_" \o args.method \o ".fits"))
            /\ plan' = Tail(plan)
            /\ fpc' = "assembled"
            /\ err' = err
    /\ UNCHANGED <<mp, args, rows, fpos, jobs, results, order, conts, pool,
                   sig, tmp, cont_cube, written, sigRow, fits, tmp0,
                   regAtCall, fitEnd, names,
                   pools>>
    /\ UNCHANGED seqvars

\* the dictionaries a fitter can find: that of an earlier run without a
\* fit, or that of a run whose fitter went through row 0 and returned
FitPriors ==
    { [reg |-> d, tmp |-> NoTmp] : d \in PriorDicts } \cup
    { [reg |-> DictSet(d, "lowess_pickle", PicklePrefix("s", "lowess")),
       tmp |-> FitRange(NoTmp, <<0>>)] : d \in PriorDicts }

\* run() at a step of a recipe whose files are there
InitAtStep(prior) ==
    /\ params_ok = TRUE
    /\ procsteps_ok = TRUE
    /\ procsteps = <<>>
    /\ regFile = PickleDump(prior.reg)
    /\ persisted = prior.reg
    /\ disk = DictFiles(prior.reg)
    /\ content = PriorContent(prior.reg)
    /\ fn_list = PyNone
    /\ pc = "loop"
    /\ idx = 1
    /\ ip = 0
    /\ err = ""
    /\ calls = <<>>
    /\ handed = PyNone
    /\ lastRet = PyNone
    /\ regFile0 = regFile
    /\ fileAtCall = regFile
    /\ loads = 0
    /\ writes = 0
    /\ everPut = {}
    /\ inputs = <<>>
    /\ runs = 1
    /\ end1 = [reg |-> regFile, content |-> content]
    /\ FitIdle
    /\ tmp = prior.tmp
    /\ tmp0 = prior.tmp
    /\ regAtCall = regFile

InitFit ==
    /\ \E prior \in FitPriors : InitAtStep(prior)
    /\ mp \in MpValues
    /\ plan = <<"fit", "make">>
    /\ names = NoNames

NextFit ==
    \/ FitCall
    \/ RowBegin
    \/ WorkerDone
    \/ WorkerFail
    \/ MapReturn
    \/ MapRaise
    \/ Persist
    \/ FitReturn
    \/ Sigint
    \/ Kill
    \/ Restart
    \/ AsmCall
    \/ AsmRow
    \/ AsmReturn

SpecFit == InitFit /\ [][NextFit]_vars

-----------------------------------------------------------------------------
(* run_make_continuum_cube on the files of any set of rows *)

\* the rows of a set, in increasing order
RowsOf(S) == SelectSeq([k \in 1..NAXIS1 |-> k - 1], LAMBDA r : r \in S)

\* what the assembler can find: the files of any set of rows, saved by
\* fitters with a pool, and a dictionary that has the key of a fitter that
\* returned, or not (every fitter was stopped), or the key of an earlier
\* assembly as well
AsmPriors ==
    UNION { { [reg |-> d, tmp |-> FitRange(NoTmp, RowsOf(S))],
              [reg |-> DictSet(d, "lowess_pickle", PicklePrefix("s", "lowess")),
               tmp |-> FitRange(NoTmp, RowsOf(S))],
              [reg |-> DictSet(DictSet(d, "lowess_pickle", PicklePrefix("s", "lowess")),
                               "lowess_cube", ProdPath("s", "_lowess.fits")),
               tmp |-> FitRange(NoTmp, RowsOf(S))] } :
            d \in PriorDicts, S \in SUBSET (0..(NAXIS1 - 1)) }

InitAsm ==
    /\ \E prior \in AsmPriors : InitAtStep(prior)
    /\ mp = [t |-> "bool", n |-> 1]
    /\ plan = <<"make">>
    /\ names = NoNames

NextAsm ==
    \/ AsmCall
    \/ AsmRow
    \/ AsmReturn

SpecAsm == InitAsm /\ [][NextAsm]_vars

-----------------------------------------------------------------------------
(* A recipe with two fitting steps, each on a span of rows, and the         *)
(* assembling step                                                          *)

InitChunk ==
    /\ \E prior \in FitPriors : InitAtStep(prior)
    /\ mp \in {v \in MpValues : Truthy(v)}
    /\ plan = <<"fit", "fit", "make">>
    /\ names = NoNames

NextChunk ==
    \/ FitCall
    \/ RowBegin
    \/ WorkerDone
    \/ MapReturn
    \/ Persist
    \/ FitReturn
    \/ AsmCall
    \/ AsmRow
    \/ AsmReturn

SpecChunk == InitChunk /\ [][NextChunk]_vars

\* the cube run_make_continuum_cube ends with on the files t, when it ends
AssembledCube(t, reg, method) ==
    [r \in 1..NAXIS1 |->
        IF AsmName(reg, method, r - 1) \in DOMAIN t
        THEN PickleLoad(t[AsmName(reg, method, r - 1)]).items
        ELSE NanCube[r]]

-----------------------------------------------------------------------------
(* The fitter left to run: every job of a worker ends with its result, no   *)
(* signal comes, and the process and its workers keep being scheduled       *)

NextLive ==
    \/ FitCall
    \/ RowBegin
    \/ WorkerDone
    \/ MapReturn
    \/ Persist
    \/ FitReturn

SpecLive == InitFit /\ [][NextLive]_vars /\ WF_vars(NextLive)

-----------------------------------------------------------------------------
(* The name of the file of a row, as the fitter makes it and as the         *)
(* assembler makes it                                                       *)

\* rows of cubes of any size, rows of five and six digits among them
NameRows == {0, 7, 10, 99, 100, 999, 1000, 9999, 10000, 10007, 12345, 100000}

\* the dictionary a fitter that returned has left
RegAfterFit ==
    { [reg |-> DictSet(d, "lowess_pickle", PicklePrefix("s", "lowess")),
       tmp |-> NoTmp] : d \in PriorDicts }

InitName ==
    /\ \E prior \in RegAfterFit : InitAtStep(prior)
    /\ mp = [t |-> "bool", n |-> 1]
    /\ plan = <<>>
    /\ \E a \in NameRows, b \in NameRows :
          names = [r1 |-> a, r2 |-> b, w |-> "", r |-> ""]

\* the fitter names the file of row r1, the assembler that of row r2
NameFiles ==
    /\ names.w = ""
    /\ names' = [names EXCEPT
                    !.w = FitName("s", "lowess", names.r1),
                    !.r = AsmName(PickleLoad(regFile), "lowess", names.r2)]
    /\ UNCHANGED <<fn_list, regFile, persisted, err, mp, plan, args, fpc,
                   rows, fpos, jobs, results, order, conts, pool, sig, tmp,
                   cont_cube, written, sigRow, fits, tmp0, regAtCall, fitEnd,
                   pools>>
    /\ UNCHANGED seqvars

NextName ==
    \/ NameFiles

SpecName == InitName /\ [][NextName]_vars

-----------------------------------------------------------------------------
(* Properties of the sequencer *)

Range(q) == {q[i] : i \in 1..Len(q)}

IsPrefix(a, b) == Len(a) <= Len(b) /\ SubSeq(b, 1, Len(a)) = a

\* the positions of the recipe whose run flag is set, in recipe order
EnabledPositions ==
    SelectSeq([i \in 1..Len(procsteps) |-> i], LAMBDA i : procsteps[i].run)

\* the dictionary a run starts from: the one it seeds or the one it finds
Reg0 == IF regFile0 = NoFile THEN SeedDict ELSE PickleLoad(regFile0)

AtStep == pc = "loop" /\ idx <= Len(procsteps)

StepFailed == pc = "aborted" /\ ip >= 1

\* C1: the implementations of the enabled steps are invoked in recipe order,
\* none twice and, once run() has completed, each exactly once; while a step
\* runs, the dictionary of every step invoked before it has been written
\* (one write per earlier step, plus the seeding write of a fresh run).
C1_OrderedOnce ==
    /\ IsPrefix(calls, EnabledPositions)
    /\ (pc = "done" => calls = EnabledPositions)
    /\ (pc \in {"body", "save"} =>
            writes = (Len(calls) - 1) + (IF regFile0 = NoFile THEN 1 ELSE 0))
    /\ (pc \in {"loop", "load", "call", "done"} /\ idx >= 1 =>
            writes = Len(calls) + (IF regFile0 = NoFile THEN 1 ELSE 0))

C1_Witness ==
    /\ pc = "done"
    /\ Len(calls) >= 2
    /\ writes >= 2

\* C2: a step whose run flag is false is never invoked, and the transition
\* that processes it neither reads nor writes the dictionary file and leaves
\* its content as it was.
C2_DisabledNoEffect ==
    /\ [](\A i \in Range(calls) : procsteps[i].run)
    /\ [][(AtStep /\ ~procsteps[idx].run) =>
            /\ regFile' = regFile
            /\ loads' = loads
            /\ writes' = writes
            /\ calls' = calls
            /\ fn_list' = fn_list]_vars

C2_Witness ==
    /\ pc = "done"
    /\ \E i \in 1..Len(procsteps) : ~procsteps[i].run
    /\ Len(calls) >= 1
    /\ writes >= 1

\* C3 as stated: a step that is switched off is skipped without error whatever
\* its name, and the run goes on with the next step.
C3_DisabledAlwaysSkipped ==
    [][(AtStep /\ ~procsteps[idx].run) =>
            (pc' = "loop" /\ idx' = idx + 1 /\ err' = "")]_vars

\* C3 amended: the name of every step is resolved before its run flag is
\* looked at; a step whose name does not resolve aborts the run with a
\* KeyError whether it is switched on or off, and a step that is switched off
\* and resolves is skipped without error.
C3_ResolvedBeforeFlag ==
    [][AtStep =>
        IF procsteps[idx].step \notin StepNames
        THEN /\ pc' = "aborted"
             /\ err' = "KeyError: func"
             /\ calls' = calls
             /\ regFile' = regFile
        ELSE ~procsteps[idx].run =>
                (pc' = "loop" /\ idx' = idx + 1 /\ err' = "")]_vars

C3_Witness ==
    /\ pc = "aborted"
    /\ err = "KeyError: func"
    /\ ~procsteps[idx].run
    /\ idx >= 2

\* C4: a step that is switched on and whose name does not resolve stops the
\* run there: the loop never passes it, neither it nor a later step is
\* invoked, and the dictionary file is the one the last completed step wrote
\* (the seeded or found one when no step completed).
C4_UnknownEnabledFatal ==
    \A i \in 1..Len(procsteps) :
        (procsteps[i].run /\ procsteps[i].step \notin StepNames) =>
            /\ idx <= i
            /\ \A j \in Range(calls) : j < i
            /\ (idx = i /\ pc # "loop") =>
                    /\ pc = "aborted"
                    /\ err = "KeyError: func"
                    /\ PickleLoad(regFile) = (IF calls = <<>> THEN Reg0 ELSE lastRet)

C4_Witness ==
    /\ pc = "aborted"
    /\ err = "KeyError: func"
    /\ procsteps[idx].run
    /\ Len(calls) >= 1
    /\ regFile # regFile0

\* C5: the dictionary handed to a step is the one the step invoked before it
\* returned, which is also the one persisted (for the first step: the seeded
\* or found one); every key an earlier step assigned is in it.
C5_HandedIsLastReturned ==
    /\ (pc = "body" =>
            /\ handed = (IF Len(calls) = 1 THEN Reg0 ELSE lastRet)
            /\ handed = persisted)
    /\ (pc = "call" => everPut \subseteq DictKeys(fn_list))

C5_Witness ==
    /\ pc = "body"
    /\ Len(calls) = 2
    /\ everPut # {}
    /\ handed # Reg0

\* C6: when a step implementation raises, the run is over, the dictionary
\* file is the one found when the step was invoked, which is the one written
\* for the last step that completed; the file changes only when run() seeds
\* it or saves it after a step has returned.
C6_FailureKeepsRegistry ==
    /\ [](StepFailed =>
            /\ regFile = fileAtCall
            /\ PickleLoad(regFile) = (IF Len(calls) = 1 THEN Reg0 ELSE lastRet)
            /\ calls[Len(calls)] = idx)
    /\ [][regFile' # regFile => pc \in {"seed", "save"}]_vars
    /\ [][pc = "aborted" => (pc' = "aborted" /\ calls' = calls)]_vars

C6_Witness ==
    /\ StepFailed
    /\ Len(calls) = 2
    /\ fn_list # handed
    /\ regFile # regFile0

\* C7: a run that finds no dictionary file checks the raw file first: if it is
\* there the file is created with the single entry raw_cube -> raw path, if
\* not the run fails, no file is created and no step is invoked.
C7_SeedAfterRawCheck ==
    /\ [][(pc = "seed" /\ regFile = NoFile) =>
            IF RawPath \in disk
            THEN /\ AsMap(PickleLoad(regFile')) = [k \in {"raw_cube"} |-> RawPath]
                 /\ pc' = "loop"
            ELSE /\ regFile' = NoFile
                 /\ pc' = "aborted"]_vars
    /\ []((regFile0 = NoFile /\ RawPath \notin disk) =>
            (regFile = NoFile /\ calls = <<>> /\ pc \in {"start", "seed", "aborted"}))

C7_Witness ==
    /\ pc = "aborted"
    /\ err = "Exception: raw file not found"
    /\ regFile = NoFile
    /\ Len(procsteps) >= 1

\* C8: without the parameter file or without the recipe file run() raises at
\* once: the dictionary file is neither created nor changed and no step is
\* invoked.
C8_MissingFilesAbort ==
    ~(params_ok /\ procsteps_ok) =>
        /\ pc \in {"start", "aborted"}
        /\ (pc = "aborted" => err = "Exception: failed to load")
        /\ regFile = regFile0
        /\ writes = 0
        /\ loads = 0
        /\ calls = <<>>

C8_Witness ==
    /\ pc = "aborted"
    /\ params_ok
    /\ ~procsteps_ok
    /\ regFile0 = NoFile
    /\ RawPath \in disk

\* C9: what is loaded from the dictionary file is exactly what was last
\* saved into it, whatever the file held before that save.
C9_RoundTrip ==
    /\ (regFile # NoFile => PickleLoad(regFile) = persisted)
    /\ (pc = "call" => fn_list = persisted)

C9_Witness ==
    /\ pc = "call"
    /\ regFile0 # NoFile
    /\ regFile # regFile0
    /\ Len(fn_list.items) > Len(Reg0.items)

\* C10: the dictionary file, once there, stays there and its set of keys
\* never shrinks, within a run and when a run finds the file of an earlier
\* one; a step only adds keys to the dictionary it was handed or re-assigns
\* them.
C10_KeysNeverShrink ==
    /\ [][(regFile # NoFile /\ regFile' # regFile) =>
            /\ regFile' # NoFile
            /\ DictKeys(PickleLoad(regFile)) \subseteq DictKeys(PickleLoad(regFile'))]_vars
    /\ [][(pc = "body" /\ pc' = "body") =>
            DictKeys(fn_list) \subseteq DictKeys(fn_list')]_vars

C10_Witness ==
    /\ regFile0 # NoFile
    /\ Len(Reg0.items) >= 2
    /\ writes >= 1
    /\ DictKeys(PickleLoad(regFile)) # DictKeys(Reg0)
    /\ DictGet(PickleLoad(regFile), "cube") # DictGet(Reg0, "cube")

-----------------------------------------------------------------------------
(* Properties of a recipe run again *)

OpsOf(d, kinds) ==
    {Func(d)[n] : n \in {m \in 1..Len(Func(d)) : Func(d)[m].op \in kinds}}

\* the keys of fn_list a step reads, the keys it assigns, the files it writes
ReadOps(d) == OpsOf(d, {"extract", "lookup"})
AssignKeys(d) == {o.key : o \in OpsOf(d, {"put"})}
WritePaths(d) == {o.val : o \in {w \in OpsOf(d, {"put", "write"}) : w.write}}

\* the file an op reads when fn_list is reg
ReadPath(o, reg) ==
    IF o.op = "lookup" THEN TmpPath(DictGet(reg, o.key)) ELSE DictGet(reg, o.key)

\* a read of key o.key by the step at position i finds the same data in
\* every run: an enabled step before i assigns the key, or no enabled step
\* of the recipe assigns the key or writes the file it names
StableRead(i, o) ==
    \/ \E j \in 1..(i - 1) :
          procsteps[j].run /\ o.key \in AssignKeys(procsteps[j])
    \/ \A j \in 1..Len(procsteps) :
          procsteps[j].run =>
             /\ o.key \notin AssignKeys(procsteps[j])
             /\ DictHas(Reg0, o.key) =>
                    ReadPath(o, Reg0) \notin WritePaths(procsteps[j])

StableInputs ==
    \A i \in 1..Len(procsteps) :
       procsteps[i].run => \A o \in ReadOps(procsteps[i]) : StableRead(i, o)

\* an enabled step that reads and assigns the same key
HasSameInOut ==
    \E i \in 1..Len(procsteps) :
       /\ procsteps[i].run
       /\ \E o \in ReadOps(procsteps[i]) : o.key \in AssignKeys(procsteps[i])

-----------------------------------------------------------------------------
(* Properties of the fitter and of the assembler *)

\* the rows of the span the fitter was called on, in increasing order: from
\* start_row, or 0 if left out, to end_row, or the last row if left out
SpanRows ==
    LET lo == IF args.start_row = NoneRow THEN 0 ELSE args.start_row
        hi == IF args.end_row = NoneRow THEN NAXIS1 - 1 ELSE args.end_row
    IN  [k \in 1..(hi - lo + 1) |-> lo + k - 1]

\* C12: the rows the fitter has saved are at every moment the first rows of
\* the inclusive span [start_row, end_row], in increasing order and each
\* once, and when the fitter returns they are all the rows of the span; a
\* start_row left out stands for 0, an end_row left out for the last row of
\* the cube.
C12_RowsOfSpan ==
    /\ IsPrefix(written, SpanRows)
    /\ fitEnd = "returned" => written = SpanRows

C12_Witness ==
    /\ fitEnd = "returned"
    /\ args.start_row = 1
    /\ args.end_row = NoneRow
    /\ written = <<1, 2>>
    /\ Len(order) = NAXIS2

\* the file of row r holds one fitted spectrum for each column of the row
FileComplete(r) ==
    LET f == PickleLoad(tmp[FitName("s", "lowess", r)])
    IN  /\ f.t = "list"
        /\ Len(f.items) = NAXIS2
        /\ \A i \in 1..NAXIS2 : f.items[i] = LowessFit(SpecOf(i - 1, r))

C14_InterruptStopsFitter ==
    sigRow # NoneRow =>
        /\ fitEnd = "exited"
        /\ fpc = "exited" =>
              /\ pool = "joined"
              /\ err = "Multiprocessing continuum fitting interrupted at row "
                        \o Str(sigRow)

\* C15: once SIGINT has come while the jobs of row N were with the pool, the
\* fitter that was interrupted saves no file for row N, the files it saved
\* for the rows before N stay as they were saved, and the step does not get
\* its key into the dictionary file.
C15_InterruptedRowNotSaved ==
    sigRow # NoneRow =>
        /\ sigRow \notin Range(written)
        /\ \A r \in Range(written) : FileComplete(r)
        /\ fitEnd # "returned"
        /\ (plan # <<>> /\ Head(plan) = "fit") => regFile = regAtCall

\* the fitter, run with a pool, was stopped after it had saved rows, and
\* run() was started again for the assembling step alone
AssemblingAfterStop ==
    /\ Truthy(mp)
    /\ fitEnd \in {"killed", "raised", "exited"}
    /\ written # <<>>
    /\ plan = <<"make">>
    /\ args.method = "lowess"

\* C16: a fitter stopped after it has saved the file of row k can be
\* followed by the assembling step: that step does not fail, and its cube
\* holds the fitted spectra in every row that has a file, the rows saved
\* before the stop among them, and nan in every other row.
C16_AssembleAfterStop ==
    AssemblingAfterStop =>
        /\ fpc # "raised"
        /\ fpc = "assembled" =>
              \A r \in 0..(NAXIS1 - 1) :
                 cont_cube[r + 1] =
                    IF FitName("s", "lowess", r) \in DOMAIN tmp
                    THEN RowConts(r) ELSE NanCube[r + 1]

\* C17: with a pool, whatever the order in which the jobs of a row end, the
\* list collected for the row has one entry for each column and entry i is
\* the fit of column i; so has the file saved for the row, and so has the
\* row of the cube the assembler fills from it.
C17_ColumnOrderKept ==
    Truthy(mp) =>
        /\ (fpc = "persist" /\ Head(plan) = "fit") =>
               /\ Len(conts.items) = NAXIS2
               /\ \A i \in 1..NAXIS2 : conts.items[i] = LowessFit(SpecOf(i - 1, Row))
        /\ \A r \in Range(written) : FileComplete(r)
        /\ fpc = "assembled" =>
               \A r \in Range(written) : \A i \in 1..NAXIS2 :
                  cont_cube[r + 1][i] = LowessFit(SpecOf(i - 1, r))

C17_Witness ==
    /\ Truthy(mp)
    /\ fpc = "assembled"
    /\ written = <<0, 1>>
    /\ order = <<2, 1>>
    /\ cont_cube[2][1] = LowessFit(SpecOf(0, 1))
    /\ cont_cube[3][1] = "nan"

\* the rows that have a file
RowsWithFile == {r \in 0..(NAXIS1 - 1) : FitName("s", "lowess", r) \in DOMAIN tmp}

ChunkedRuns ==
    /\ Len(fits) = 2
    /\ fits[2].a = fits[1].b + 1
    /\ fits[1].a <= fits[2].a
    /\ fits[2].a <= fits[2].b

\* C19: the cube assembled after the fitter was run on rows [a, k-1] and
\* then on rows [k, b], with the same tag, target and method, is the cube
\* assembled after one fitter run on rows [a, b] from the same files.
C19_ChunkedAsOneRun ==
    (fpc = "assembled" /\ ChunkedRuns) =>
        cont_cube =
           AssembledCube(FitRange(tmp0, Linspace(fits[1].a, fits[2].b,
                                                 fits[2].b - fits[1].a + 1)),
                         PickleLoad(regAtCall), "lowess")

C19_Witness ==
    /\ fpc = "assembled"
    /\ ChunkedRuns
    /\ fits[1].a = 0
    /\ fits[2].a = 1
    /\ fits[2].b = 2
    /\ tmp0 = NoTmp
    /\ \A r \in 0..2 : cont_cube[r + 1] = RowConts(r)

\* the row numbers of NameRows written with at least four digits
PaddedRow ==
    [n \in NameRows |->
        CASE n = 0 -> "0000" [] n = 7 -> "0007" [] n = 10 -> "0010"
          [] n = 99 -> "0099" [] n = 100 -> "0100" [] n = 999 -> "0999"
          [] n = 1000 -> "1000" [] n = 9999 -> "9999" [] n = 10000 -> "10000"
          [] n = 10007 -> "10007" [] n = 12345 -> "12345"
          [] n = 100000 -> "100000"]

\* C20: the fitter names the file of row r by tag, target and method, then
\* '_row_' and r written with at least four digits, zeros on the left; the
\* assembler looks row r up under just that name, for rows of 10000 and
\* more as well; the names of two different rows differ.
C20_NamesAgree ==
    names.w # "" =>
        /\ names.w = "tmp_loc/s_target_lowess_row_" \o PaddedRow[names.r1] \o ".pkl"
        /\ names.r = "tmp_loc/s_target_lowess_row_" \o PaddedRow[names.r2] \o ".pkl"
        /\ names.r1 = names.r2 <=> names.w = names.r

C20_Witness ==
    /\ names.r1 = 10000
    /\ names.r2 = 0
    /\ names.w = "tmp_loc/s_target_lowess_row_10000.pkl"
    /\ names.r = "tmp_loc/s_target_lowess_row_0000.pkl"

\* the pools of the process whose workers have not been waited for
LivePools == {k \in 1..Len(pools) : pools[k].st # "joined"}

\* C21: while the fitter is at a row, the file of every row before it in the
\* span has been written whole and closed, those files were written in
\* increasing order of row, and every pool made for a row before it has been
\* closed and joined; at no moment is there more than one pool that has not
\* been joined.
C21_PersistBeforeNextRow ==
    /\ Cardinality(LivePools) <= 1
    /\ fpc \in {"loop", "map", "persist"} =>
          /\ written = SubSeq(rows, 1, fpos - 1)
          /\ \A k \in 1..Len(written) :
                /\ FitName("s", args.method, written[k]) \in DOMAIN tmp
                /\ PickleLoad(tmp[FitName("s", args.method, written[k])]).t
                      \in {"list", "map"}
                /\ k > 1 => written[k - 1] < written[k]
          /\ fpc \in {"map", "persist"} /\ Truthy(mp) =>
                \A k \in 1..(Len(pools) - 1) : pools[k].st = "joined"

C21_Witness ==
    /\ fpc = "map"
    /\ fpos = 2
    /\ written = <<rows[1]>>
    /\ Len(pools) = 2
    /\ pools[1].st = "joined"
    /\ pools[2].st = "open"
    /\ \E i \in 1..NAXIS2 : jobs[i] = "queued"

\* C22: when the fitter has left pool.map for a row, by its return or by the
\* exit taken on an interrupt, the pool of the row has been closed and joined;
\* once the fitter has returned or exited, no pool it made has workers that
\* were not waited for.
C22_NoOrphanedWorkers ==
    /\ (Truthy(mp) /\ (fpc = "persist" \/ fpc = "exited")) =>
          /\ pools # <<>>
          /\ pools[Len(pools)].st = "joined"
          /\ pool = "joined"
    /\ fitEnd \in {"returned", "exited"} => LivePools = {}

C22_Witness ==
    /\ fitEnd = "returned"
    /\ fpc = "idle"
    /\ Len(pools) = 2
    /\ written = <<0, 1>>
    /\ LivePools = {}

\* C23: when the fit of a column has raised in a worker, the fitter ends on
\* that row without a file saved for the row, the files it saved for the
\* rows before hold what was saved, every other file is as it was when the
\* fitter was called, and the pool of the row has been closed and joined.
C23_FailedRowAtomic ==
    (fpc = "raised" /\ err = "Exception: fit_func") =>
        /\ Row \notin Range(written)
        /\ \A r \in Range(written) : FileComplete(r)
        /\ \A q \in DOMAIN tmp :
              (\A r \in Range(written) : q # FitName("s", args.method, r)) =>
                  q \in DOMAIN tmp0 /\ tmp[q] = tmp0[q]
        /\ pools[Len(pools)].st = "joined"

\* C24: every pool the fitter makes has as many workers as the parameter
\* says when the parameter is a count, and as many as the machine has
\* processing units when the parameter is True or another value that is not
\* a count.
C24_PoolSize ==
    \A k \in 1..Len(pools) :
       pools[k].n = IF mp.t = "int" THEN mp.n ELSE CpuCount

\* C25: a fitter called with a method that is not supported raises at once
\* with the exception that names the method: it never gets to a row, makes
\* no pool, writes no file into tmp_loc, and the dictionary file stays as it
\* was when the step was called, without a key of the step.
C25_UnsupportedMethodFatal ==
    (plan # <<>> /\ Head(plan) = "fit" /\ fpc # "idle"
        /\ args.method # "lowess") =>
        /\ fpc = "raised"
        /\ fitEnd = "raised"
        /\ err = "Exception: method"
        /\ written = <<>>
        /\ pools = <<>>
        /\ tmp = tmp0
        /\ regFile = regAtCall
        /\ ~DictHas(fn_list, args.method \o "_pickle")

C25_Witness ==
    /\ plan = <<"fit", "make">>
    /\ fpc = "raised"
    /\ args.method = "spline"
    /\ err = "Exception: method"
    /\ tmp0 # NoTmp

\* the rows of the span the fitter was called on
SpanOfCall == {r \in 0..(NAXIS1 - 1) : StartRow(args) <= r /\ r <= EndRow(args)}

\* the fitter has returned: each row of its span has a file, and the
\* dictionary run() has saved maps the key of the method to the prefix of
\* the names of the files
ReturnedComplete ==
    /\ fitEnd = "returned"
    /\ fpc = "idle"
    /\ \A r \in SpanOfCall :
          /\ FitName("s", args.method, r) \in DOMAIN tmp
          /\ r \in Range(written)
    /\ DictHas(PickleLoad(regFile), args.method \o "_pickle")
    /\ DictGet(PickleLoad(regFile), args.method \o "_pickle")
          = PicklePrefix("s", args.method)

\* C26: a fitter that has started its loop on a span of rows of the cube,
\* whose workers all end with a result and which gets no signal, eventually
\* returns, and then every row of the span has its file and the dictionary
\* maps '<method>_pickle' to the prefix of the file names; the dictionary is
\* not changed while the loop runs, and the step that changes it is taken
\* only when every row of the span has been saved.
C26_FitterCompletes ==
    /\ (fpc = "loop") ~> ReturnedComplete
    /\ [](fpc \in {"loop", "map", "persist"} =>
             /\ regFile = regAtCall
             /\ fn_list = PickleLoad(regAtCall))
    /\ [][regFile' # regFile =>
             /\ fpos > Len(rows)
             /\ Range(written) = SpanOfCall
             /\ \A r \in SpanOfCall : FitName("s", args.method, r) \in DOMAIN tmp]_vars

C26_Witness ==
    /\ ReturnedComplete
    /\ written = <<0, 1, 2>>
    /\ Len(pools) = 3
    /\ plan = <<"make">>

\* C27: without multiprocessing the file the fitter saves for a row is,
\* byte for byte, the file a fitter with a pool saves for that row: the
\* pickle of the list of the fitted spectra of the columns, in column order.
C27_SerialAsParallel ==
    ~Truthy(mp) =>
        \A r \in Range(written) :
           /\ FitName("s", args.method, r) \in DOMAIN tmp
           /\ tmp[FitName("s", args.method, r)]
                 = FitRange(NoTmp, <<r>>)[FitName("s", "lowess", r)]

\* C28: the process that runs the steps acts on SIGINT while the jobs of a
\* row are with the pool, and after the fitter has returned it acts on
\* SIGINT as it did before the fitter was called.
C28_SigintLeftAlone ==
    /\ fpc = "map" => sig = "default"
    /\ fitEnd = "returned" => sig = "default"

====
